---- MODULE Spec2Model ----
(***************************************************************************)
(* Model of question_answer_subquery.py: the Query / QueryPlan schema and  *)
(* the two-call query_planner.                                             *)
(*                                                                         *)
(* An optional JSON field is a sequence of length 0 (absent) or 1          *)
(* (present), so that a default can be told from a supplied value.         *)
(***************************************************************************)
EXTENDS Naturals, Sequences, FiniteSets

\* ------------------------------------------------------------- bounds
MaxNodes == 2
MaxId == 2
MaxDeps == 1

\* ------------------------------------------------------ program constants
SINGLE_QUESTION == "SINGLE"
MERGE_MULTIPLE_RESPONSES == "MERGE_MULTIPLE_RESPONSES"
QueryType == {SINGLE_QUESTION, MERGE_MULTIPLE_RESPONSES}

PLANNING_MODEL == "gpt-4"
ANSWERING_MODEL == "gpt-3.5-turbo-0613"

\* ------------------------------------------------------------- inputs
Questions == {"q1", "q2"}
PlanTexts == {"plan-a", "plan-b"}

SeqsUpTo(S, n) == UNION {[1..k -> S] : k \in 0..n}

Present(S) == {<<x>> : x \in S}
Optional(S) == {<<>>} \cup Present(S)

DepLists == SeqsUpTo(1..MaxId, MaxDeps)

\* Node records as they arrive in the function-call arguments: well-typed
\* ones (optional fields left out or supplied) and three malformed ones.
WellTypedNodes ==
    [id : Present(1..MaxId),
     question : Present({"q"}),
     dependancies : Optional(DepLists),
     node_type : {<<>>},
     original_question : {<<>>}]
    \cup
    [id : Present(1..MaxId),
     question : Present({"q"}),
     dependancies : {<<>>},
     node_type : Present({MERGE_MULTIPLE_RESPONSES}),
     original_question : Present({TRUE})]
    \cup
    [id : Present({1}),
     question : Present({"q"}),
     dependancies : {<<>>},
     node_type : Present({SINGLE_QUESTION}),
     original_question : Present({FALSE})]

MalformedNodes ==
    { [id |-> <<>>, question |-> <<"q">>, dependancies |-> <<>>,
       node_type |-> <<>>, original_question |-> <<>>],
      [id |-> <<1>>, question |-> <<>>, dependancies |-> <<>>,
       node_type |-> <<>>, original_question |-> <<>>],
      [id |-> <<1>>, question |-> <<"q">>, dependancies |-> <<>>,
       node_type |-> <<"BOGUS">>, original_question |-> <<>>] }

RawNodes == WellTypedNodes \cup MalformedNodes
RawGraphs == SeqsUpTo(RawNodes, MaxNodes)

\* What a ChatCompletion.create call can come back with.
PlanningResponses ==
    {[kind |-> "error", content |-> "", arguments |-> <<>>]}
    \cup {[kind |-> "ok", content |-> t, arguments |-> <<>>] : t \in PlanTexts}

ExtractionResponses ==
    {[kind |-> "error", content |-> "", arguments |-> <<>>],
     [kind |-> "badjson", content |-> "", arguments |-> <<>>]}
    \cup {[kind |-> "ok", content |-> "", arguments |-> g] : g \in RawGraphs}

NoCompletion == [kind |-> "none", content |-> "", arguments |-> <<>>]

\* ------------------------------------------------------------- schema
\* Query: required id and question, enum-typed node_type.
ValidQuery(raw) ==
    /\ Len(raw.id) = 1
    /\ Len(raw.question) = 1
    /\ (raw.node_type = <<>> \/ raw.node_type[1] \in QueryType)

QueryWrongDefaults(raw) ==
    [id |-> raw.id[1],
     question |-> raw.question[1],
     dependancies |-> IF raw.dependancies = <<>> THEN <<>> ELSE raw.dependancies[1],
     node_type |-> IF raw.node_type = <<>> THEN MERGE_MULTIPLE_RESPONSES
                   ELSE raw.node_type[1],
     original_question |-> IF raw.original_question = <<>> THEN TRUE
                           ELSE raw.original_question[1]]

\* Query(**raw): the supplied fields, the declared defaults for the rest.
Query(raw) ==
    [id |-> raw.id[1],
     question |-> raw.question[1],
     dependancies |-> IF raw.dependancies = <<>> THEN <<>> ELSE raw.dependancies[1],
     node_type |-> IF raw.node_type = <<>> THEN SINGLE_QUESTION
                   ELSE raw.node_type[1],
     original_question |-> IF raw.original_question = <<>> THEN FALSE
                           ELSE raw.original_question[1]]

RECURSIVE KeepValid(_)
KeepValid(g) ==
    IF g = <<>> THEN <<>>
    ELSE IF ValidQuery(Head(g)) THEN <<Query(Head(g))>> \o KeepValid(Tail(g))
         ELSE KeepValid(Tail(g))

QueryPlanPartial(g) == <<KeepValid(g)>>

\* QueryPlan(query_graph=g): <<plan>> when every node validates, <<>> (the
\* constructor raises) otherwise.
QueryPlan(g) ==
    IF \A i \in 1..Len(g) : ValidQuery(g[i])
    THEN <<[i \in 1..Len(g) |-> Query(g[i])]>>
    ELSE <<>>

\* QueryPlan.from_response(completion): the function-call arguments are
\* decoded and handed to the constructor.
from_response(c) ==
    IF c.kind = "ok" THEN QueryPlan(c.arguments) ELSE <<>>

\* ------------------------------------------------------------ messages
SystemMessage == [role |-> "system", content |-> <<"planner-instructions">>]
UserMessage(q) == [role |-> "user", content |-> <<"Consider", q>>]
AssistantPrefix == [role |-> "assistant", content |-> <<"step-by-step">>]
FinalInstruction == [role |-> "user", content |-> <<"produce-plan">>]
CompletionMessage(c) == [role |-> "assistant", content |-> <<c.content>>]

InitialMessages(q) == <<SystemMessage, UserMessage(q), AssistantPrefix>>

\* -------------------------------------------------------------- state
VARIABLES pc, question, messages, completion, root, error, calls

vars == <<pc, question, messages, completion, root, error, calls>>

Init ==
    /\ pc = "start"
    /\ question \in Questions
    /\ messages = <<>>
    /\ completion = NoCompletion
    /\ root = <<>>
    /\ error = "none"
    /\ calls = <<>>

Call(model, functions, r) ==
    [model |-> model, messages |-> messages, functions |-> functions, response |-> r]

BuildMessages ==
    /\ pc = "start"
    /\ messages' = InitialMessages(question)
    /\ pc' = "planning"
    /\ UNCHANGED <<question, completion, root, error, calls>>

PlanningCallRetry ==
    /\ pc = "planning"
    /\ \E r \in PlanningResponses :
        /\ calls' = Append(calls, Call(PLANNING_MODEL, FALSE, r))
        /\ IF r.kind = "error"
           THEN /\ IF Len(calls) < 2
                   THEN pc' = "planning" /\ error' = error
                   ELSE pc' = "raised" /\ error' = "OpenAIError"
                /\ UNCHANGED <<messages, completion>>
           ELSE /\ completion' = r
                /\ messages' = messages \o <<CompletionMessage(r), FinalInstruction>>
                /\ pc' = "extracting"
                /\ error' = error
    /\ UNCHANGED <<question, root>>

PlanningCall ==
    /\ pc = "planning"
    /\ \E r \in PlanningResponses :
        /\ calls' = Append(calls, Call(PLANNING_MODEL, FALSE, r))
        /\ IF r.kind = "error"
           THEN /\ pc' = "raised"
                /\ error' = "OpenAIError"
                /\ UNCHANGED <<messages, completion>>
           ELSE /\ completion' = r
                /\ messages' = messages \o <<CompletionMessage(r), FinalInstruction>>
                /\ pc' = "extracting"
                /\ error' = error
    /\ UNCHANGED <<question, root>>

ExtractionCall ==
    /\ pc = "extracting"
    /\ \E r \in ExtractionResponses :
        /\ calls' = Append(calls, Call(ANSWERING_MODEL, TRUE, r))
        /\ IF r.kind = "error"
           THEN /\ pc' = "raised"
                /\ error' = "OpenAIError"
                /\ UNCHANGED completion
           ELSE /\ completion' = r
                /\ pc' = "parsing"
                /\ error' = error
    /\ UNCHANGED <<question, messages, root>>

ParseAndReturn ==
    /\ pc = "parsing"
    /\ LET parsed == from_response(completion) IN
        IF parsed = <<>>
        THEN /\ pc' = "raised"
             /\ error' = "ValidationError"
             /\ root' = root
        ELSE /\ pc' = "returned"
             /\ root' = parsed
             /\ error' = error
    /\ UNCHANGED <<question, messages, completion, calls>>

Next ==
    \/ BuildMessages
    \/ PlanningCall
    \/ ExtractionCall
    \/ ParseAndReturn

Spec == Init /\ [][Next]_vars

\* ---------------------------------------------------- graph predicates
Range(s) == {s[i] : i \in 1..Len(s)}
Ids(g) == {g[i].id : i \in 1..Len(g)}
DepsOf(g, a) == UNION {Range(g[i].dependancies) : i \in {j \in 1..Len(g) : g[j].id = a}}

UniqueIds(g) == \A i, j \in 1..Len(g) : i # j => g[i].id # g[j].id
NoDangling(g) == \A i \in 1..Len(g) : Range(g[i].dependancies) \subseteq Ids(g)

RECURSIVE ReachFrom(_, _, _)
ReachFrom(g, S, n) ==
    IF n = 0 THEN S
    ELSE ReachFrom(g, S \cup UNION {DepsOf(g, a) : a \in S}, n - 1)

\* the ids a transitively depends on
TransitiveDeps(g, a) == ReachFrom(g, DepsOf(g, a), Len(g))
Acyclic(g) == \A a \in Ids(g) : a \notin TransitiveDeps(g, a)

WellFormed(g) == UniqueIds(g) /\ NoDangling(g) /\ Acyclic(g)

Finished == pc \in {"returned", "raised"}
SchemaConforms(g) == \A i \in 1..Len(g) : ValidQuery(g[i])
\* the graph the extraction call produced, when it conforms to the schema
Produced == [i \in 1..Len(completion.arguments) |-> Query(completion.arguments[i])]
GraphProduced ==
    /\ Finished
    /\ Len(calls) = 2
    /\ completion.kind = "ok"
    /\ SchemaConforms(completion.arguments)

\* ------------------------------------------------------------- claims

\* C2: a graph whose dependency relation has a cycle is rejected with
\* CyclicDependency; it is never accepted.
C2_CycleRejected ==
    (GraphProduced /\ ~Acyclic(Produced)) =>
        (pc = "raised" /\ error = "CyclicDependency")

\* C3: a graph with a dependency id that names no node is rejected with
\* DanglingDependency.
C3_DanglingRejected ==
    (GraphProduced /\ ~NoDangling(Produced)) =>
        (pc = "raised" /\ error = "DanglingDependency")

\* C4: a graph in which two nodes share an id is rejected with DuplicateId;
\* it is never accepted as valid.
C4_DuplicateRejected ==
    (GraphProduced /\ ~UniqueIds(Produced)) =>
        (pc = "raised" /\ error = "DuplicateId")

\* C5: every graph query_planner returns has unique ids, no dangling
\* dependency and an acyclic dependency relation.
C5_ReturnedGraphWellFormed ==
    pc = "returned" => WellFormed(root[1])

\* C6: a finished planner call has either returned one graph or failed with
\* no graph; it has failed exactly when a model call errored or the
\* structured response does not conform to the Query/QueryPlan schema.
C6_ReturnXorFail ==
    Finished =>
        LET failure == \/ \E i \in 1..Len(calls) : calls[i].response.kind = "error"
                       \/ calls[Len(calls)].response.kind = "badjson"
                       \/ ~SchemaConforms(calls[Len(calls)].response.arguments)
        IN /\ (pc = "raised") <=> failure
           /\ pc = "raised" => (root = <<>> /\ error # "none")
           /\ pc = "returned" =>
                (/\ Len(root) = 1
                 /\ error = "none"
                 /\ Len(root[1]) = Len(completion.arguments))

C6_Witness ==
    /\ pc = "raised"
    /\ Len(calls) = 2
    /\ calls[2].response.kind = "ok"
    /\ Len(calls[2].response.arguments) = 2
    /\ ValidQuery(calls[2].response.arguments[1])
    /\ ~ValidQuery(calls[2].response.arguments[2])

\* C9: a node given only an id and a question has no dependencies, kind
\* SINGLE_QUESTION and root flag false; every node's kind is one of the two
\* QueryType values.
C9_DefaultsAndKinds ==
    pc = "returned" =>
        \A i \in 1..Len(root[1]) :
            LET raw == completion.arguments[i]
                node == root[1][i]
            IN /\ node.node_type \in QueryType
               /\ Cardinality(QueryType) = 2
               /\ (raw.dependancies = <<>> /\ raw.node_type = <<>>
                     /\ raw.original_question = <<>>) =>
                    (/\ node.id = raw.id[1]
                     /\ node.question = raw.question[1]
                     /\ node.dependancies = <<>>
                     /\ node.node_type = SINGLE_QUESTION
                     /\ node.original_question = FALSE)

C9_Witness ==
    /\ pc = "returned"
    /\ Len(root[1]) = 2
    /\ completion.arguments[1].dependancies = <<>>
    /\ completion.arguments[1].node_type = <<>>
    /\ completion.arguments[1].original_question = <<>>
    /\ root[1][2].node_type = MERGE_MULTIPLE_RESPONSES

\* C10: at most two model calls, the planning call first with the three
\* initial messages, the extraction call only after a planning response and
\* with those messages, the response and the final instruction; the plan
\* comes from the second response; no call follows a failed one.
C10_TwoCallsInOrder ==
    /\ Len(calls) <= 2
    /\ Len(calls) >= 1 =>
        /\ calls[1].model = PLANNING_MODEL
        /\ calls[1].functions = FALSE
        /\ calls[1].messages = InitialMessages(question)
    /\ Len(calls) = 2 =>
        /\ calls[1].response.kind = "ok"
        /\ calls[2].model = ANSWERING_MODEL
        /\ calls[2].functions = TRUE
        /\ calls[2].messages =
             InitialMessages(question)
               \o <<CompletionMessage(calls[1].response), FinalInstruction>>
    /\ pc = "returned" =>
        /\ Len(calls) = 2
        /\ root = QueryPlan(calls[2].response.arguments)
    /\ \A i \in 1..Len(calls) :
        calls[i].response.kind = "error" => (i = Len(calls) /\ pc = "raised")

C10_Witness ==
    /\ pc = "returned"
    /\ Len(calls) = 2
    /\ calls[1].response.content = "plan-b"
    /\ Len(root[1]) = 2

====
